---- MODULE Spec2Model ----
(***************************************************************************)
(* Model of the Absurdle solver (src/src/main.rs).                         *)
(*                                                                         *)
(* Letters are the integers 1..26 (a = 1), a word is a 5-tuple of letters, *)
(* a bitset is a sequence of bytes (integers 0..255), bit i of a bitset is *)
(* bit (i % 8) of byte (i / 8) (Lsb0 order).  Rust indices are 0-based;    *)
(* TLA+ sequences are 1-based, so element k of a Vec is at position k+1.   *)
(***************************************************************************)
EXTENDS Integers, Sequences, FiniteSets

VARIABLES
    args_permutations,  \* Args.permutations
    wls_solutions,      \* WordLists.solutions as read (moved out by main)
    wls_guesses,        \* WordLists.guesses as read (moved out by main)
    solutions,          \* sorted, deduplicated candidate pool
    guesses,            \* sorted, deduplicated guess set
    all_the_buckets,    \* Vec<(String, Vec<Box<[u8]>>)>, one entry per guess
    solution_bucket,    \* the universal set, vec![0xff; ceil(S/8)]
    pc,                 \* position of main
    tpc,                \* position of every parallel per-g1 task
    my_bucket,          \* per task: the candidate set after g1
    inner_winners,      \* per task: its output buffer
    winners,            \* the collected result of the search
    fn_in,              \* inputs of a function applied on its own
    fn_out              \* its result

vars == <<args_permutations, wls_solutions, wls_guesses, solutions, guesses,
          all_the_buckets, solution_bucket, pc, tpc, my_bucket,
          inner_winners, winners, fn_in, fn_out>>

mainVars == <<args_permutations, wls_solutions, wls_guesses, solutions,
              guesses, all_the_buckets, solution_bucket, pc, tpc, my_bucket,
              inner_winners, winners>>

----------------------------------------------------------------------------
(* Program constants *)

NUM_BUCKETS == 243

WordLen == 5

(* Bounds of the model *)

MaxSolutions == 4

MaxGuesses == 1

MaxPermutations == 3

----------------------------------------------------------------------------
(* Option<T> *)

None == [some |-> FALSE]

Some(x) == [some |-> TRUE, v |-> x]

----------------------------------------------------------------------------
(* HintEncoder *)

NoChar == 0

RECURSIVE YellowPass(_, _, _, _)
YellowPass(i, pattern, word_chars, guess) ==
    IF i > WordLen THEN pattern
    ELSE IF pattern[i] = 0
            /\ \E p \in 1..WordLen : word_chars[p] = guess[i]
         THEN LET pos == CHOOSE p \in 1..WordLen :
                            /\ word_chars[p] = guess[i]
                            /\ \A q \in 1..(p - 1) : word_chars[q] # guess[i]
              IN  YellowPass(i + 1, [pattern EXCEPT ![i] = 1],
                             [word_chars EXCEPT ![pos] = NoChar], guess)
         ELSE YellowPass(i + 1, pattern, word_chars, guess)

compute_colors(word, guess) ==
    LET green == [i \in 1..WordLen |-> IF guess[i] = word[i] THEN 2 ELSE 0]
        word_chars == [i \in 1..WordLen |->
                          IF guess[i] = word[i] THEN NoChar ELSE word[i]]
    IN  YellowPass(1, green, word_chars, guess)

RECURSIVE FoldBase3(_, _, _)
FoldBase3(pattern, i, acc) ==
    IF i > Len(pattern) THEN acc
    ELSE FoldBase3(pattern, i + 1, acc * 3 + pattern[i])

(* pattern.iter().fold(0, |acc, &d| acc * 3 + d) *)
encode(pattern) == FoldBase3(pattern, 1, 0)

compute_wordle_hint(word, guess) == encode(compute_colors(word, guess))

(* mutant: the tiles are written first to last *)
RECURSIVE DecodeLoop_Forward(_, _, _)
DecodeLoop_Forward(i, n, pattern) ==
    IF i >= WordLen THEN pattern
    ELSE DecodeLoop_Forward(i + 1, n \div 3,
                            [pattern EXCEPT ![i + 1] = n % 3])

RECURSIVE DecodeLoop(_, _, _)
DecodeLoop(i, n, pattern) ==
    IF i >= WordLen THEN pattern
    ELSE DecodeLoop(i + 1, n \div 3,
                    [pattern EXCEPT ![(4 - i) + 1] = n % 3])

hint_to_pattern(hint) == DecodeLoop(0, hint, [i \in 1..WordLen |-> 0])

RECURSIVE TieLoop(_, _, _)
TieLoop(pattern, i, score) ==
    IF i >= WordLen THEN score
    ELSE LET tile_value == pattern[i + 1]
             term1 == 10 ^ (5 + tile_value)
             term2 == tile_value * 10 ^ (4 - i)
         IN  TieLoop(pattern, i + 1, score + term1 + term2)

TieBreakerScore(hint) == TieLoop(hint_to_pattern(hint), 0, 0)

(* the scores of the 243 feedback codes, computed once *)
TieBreakerTable == [h \in 0..(NUM_BUCKETS - 1) |-> TieBreakerScore(h)]

compute_tie_breaker(hint) ==
    IF hint < NUM_BUCKETS THEN TieBreakerTable[hint]
    ELSE TieBreakerScore(hint)

----------------------------------------------------------------------------
(* SetArithmetic *)

RECURSIVE count_ones(_)
count_ones(x) == IF x = 0 THEN 0 ELSE (x % 2) + count_ones(x \div 2)

RECURSIVE BitAnd(_, _)
BitAnd(x, y) ==
    IF x = 0 \/ y = 0 THEN 0
    ELSE (x % 2) * (y % 2) + 2 * BitAnd(x \div 2, y \div 2)

RECURSIVE SizeLoop(_, _, _, _)
SizeLoop(a, b, k, total) ==
    IF k > Len(a) THEN total
    ELSE SizeLoop(a, b, k + 1, total + count_ones(BitAnd(a[k], b[k])))

intersect_size(a, b) == SizeLoop(a, b, 1, 0)

(* mutant: the loop breaks once the total reaches the bound *)
RECURSIVE BoundedSizeLoop_BreakAtBound(_, _, _, _, _)
BoundedSizeLoop_BreakAtBound(a, b, bound, k, total) ==
    IF k > Len(a) THEN total
    ELSE LET t == total + count_ones(BitAnd(a[k], b[k]))
         IN  IF t >= bound THEN t
             ELSE BoundedSizeLoop_BreakAtBound(a, b, bound, k + 1, t)

RECURSIVE BoundedSizeLoop(_, _, _, _, _)
BoundedSizeLoop(a, b, bound, k, total) ==
    IF k > Len(a) THEN total
    ELSE LET t == total + count_ones(BitAnd(a[k], b[k]))
         IN  IF t > bound THEN t
             ELSE BoundedSizeLoop(a, b, bound, k + 1, t)

intersect_size_bounded(a, b, bound) == BoundedSizeLoop(a, b, bound, 1, 0)

intersect(a, b) == [k \in 1..Len(a) |-> BitAnd(a[k], b[k])]

----------------------------------------------------------------------------
(* BucketSelector *)

Less == 0 - 1

Equal == 0

Greater == 1

cmp(x, y) == IF x < y THEN Less ELSE IF x > y THEN Greater ELSE Equal

(* Ordering::then / then_with *)
then(first, second) == IF first # Equal THEN first ELSE second

Item(bucket, size, hint) == [bucket |-> bucket, size |-> size, hint |-> hint]

(* the comparison closure handed to max_by *)
MaxByCompare(item1, item2) ==
    then(cmp(item1.size, item2.size),
         cmp(compute_tie_breaker(item2.hint), compute_tie_breaker(item1.hint)))

(* Iterator::max_by, one element: the accumulator is kept only when it     *)
(* compares Greater                                                        *)
MaxByStep(current_set, buckets, k, acc) ==
    LET item == Item(buckets[k], intersect_size(buckets[k], current_set),
                     k - 1)
    IN  IF acc.some /\ MaxByCompare(acc.v, item) = Greater THEN acc
        ELSE Some(item)

(* the elements lo..hi in order (split in halves to keep the nesting low) *)
RECURSIVE MaxByLoop(_, _, _, _, _)
MaxByLoop(current_set, buckets, lo, hi, acc) ==
    IF lo > hi THEN acc
    ELSE IF lo = hi THEN MaxByStep(current_set, buckets, lo, acc)
    ELSE LET mid == (lo + hi) \div 2
             left == MaxByLoop(current_set, buckets, lo, mid, acc)
         IN  IF left.some
             THEN MaxByLoop(current_set, buckets, mid + 1, hi, left)
             ELSE MaxByLoop(current_set, buckets, mid + 1, hi, None)

(* Some(item) of the chosen bucket, or None; the code keeps item.bucket *)
find_best_bucket(current_set, buckets) ==
    MaxByLoop(current_set, buckets, 1, Len(buckets), None)

(* mutant: the sizes alone are compared, a tie keeps the earlier code *)
BoundedOrd_NoTieBreak(size, hint, max_size, max_hint) == cmp(size, max_size)

(* mutant: the tie goes to the more informative code *)
BoundedOrd_TieReversed(size, hint, max_size, max_hint) ==
    then(cmp(size, max_size),
         cmp(compute_tie_breaker(hint), compute_tie_breaker(max_hint)))

(* the body of the arm Some((_, max_size, max_hint)) *)
BoundedOrd(size, hint, max_size, max_hint) ==
    then(cmp(size, max_size),
         cmp(compute_tie_breaker(max_hint), compute_tie_breaker(hint)))

(* mutant: a bucket over the bound is passed over instead of ending the   *)
(* selection                                                              *)
BoundedStep_SkipOversize(current_set, buckets, bound, k, st) ==
    IF st.returned THEN st
    ELSE LET size == intersect_size_bounded(buckets[k], current_set, bound)
             current_item == Item(buckets[k], size, k - 1)
         IN  IF size > bound
             THEN [st EXCEPT !.scanned = k]
             ELSE IF ~st.max_item.some
                  THEN [returned |-> FALSE, max_item |-> Some(current_item),
                        scanned |-> k]
                  ELSE IF BoundedOrd(size, k - 1, st.max_item.v.size,
                                     st.max_item.v.hint) = Greater
                       THEN [returned |-> FALSE,
                             max_item |-> Some(current_item), scanned |-> k]
                       ELSE [st EXCEPT !.scanned = k]

(* mutant: a bucket as large as the bound already fails the selection *)
BoundedStep_OffByOne(current_set, buckets, bound, k, st) ==
    IF st.returned THEN st
    ELSE LET size == intersect_size_bounded(buckets[k], current_set, bound)
             current_item == Item(buckets[k], size, k - 1)
         IN  IF size >= bound
             THEN [returned |-> TRUE, max_item |-> None, scanned |-> k]
             ELSE IF ~st.max_item.some
                  THEN [returned |-> FALSE, max_item |-> Some(current_item),
                        scanned |-> k]
                  ELSE IF BoundedOrd(size, k - 1, st.max_item.v.size,
                                     st.max_item.v.hint) = Greater
                       THEN [returned |-> FALSE,
                             max_item |-> Some(current_item), scanned |-> k]
                       ELSE [st EXCEPT !.scanned = k]

(* One iteration of the for loop of find_best_bucket_bounded.  The loop    *)
(* state is max_item, whether the function has returned None, and the      *)
(* number of buckets looked at so far.                                     *)
BoundedStep(current_set, buckets, bound, k, st) ==
    IF st.returned THEN st
    ELSE LET size == intersect_size_bounded(buckets[k], current_set, bound)
             current_item == Item(buckets[k], size, k - 1)
         IN  IF size > bound
             THEN [returned |-> TRUE, max_item |-> None, scanned |-> k]
             ELSE IF ~st.max_item.some
                  THEN [returned |-> FALSE, max_item |-> Some(current_item),
                        scanned |-> k]
                  ELSE IF BoundedOrd(size, k - 1, st.max_item.v.size,
                                     st.max_item.v.hint) = Greater
                       THEN [returned |-> FALSE,
                             max_item |-> Some(current_item), scanned |-> k]
                       ELSE [st EXCEPT !.scanned = k]

(* the iterations lo..hi in order (split in halves to keep the nesting low) *)
RECURSIVE BoundedLoop(_, _, _, _, _, _)
BoundedLoop(current_set, buckets, bound, lo, hi, st) ==
    IF lo > hi THEN st
    ELSE IF lo = hi THEN BoundedStep(current_set, buckets, bound, lo, st)
    ELSE LET mid == (lo + hi) \div 2
             left == BoundedLoop(current_set, buckets, bound, lo, mid, st)
         IN  IF left.returned THEN left
             ELSE BoundedLoop(current_set, buckets, bound, mid + 1, hi, left)

(* The whole scan: max_item is the Option the function returns (the code   *)
(* keeps max_item.v.bucket), scanned the number of buckets it looked at.   *)
BoundedScan(current_set, buckets, bound) ==
    BoundedLoop(current_set, buckets, bound, 1, Len(buckets),
                [returned |-> FALSE, max_item |-> None, scanned |-> 0])

find_best_bucket_bounded(current_set, buckets, bound) ==
    BoundedScan(current_set, buckets, bound).max_item

----------------------------------------------------------------------------
(* Word lists *)

(* String ordering: lexicographic on the letters *)
WordLess(a, b) ==
    \E i \in 1..WordLen : a[i] < b[i] /\ \A j \in 1..(i - 1) : a[j] = b[j]

RECURSIVE InsertSorted(_, _)
InsertSorted(w, s) ==
    IF s = <<>> THEN <<w>>
    ELSE IF WordLess(s[1], w) THEN <<s[1]>> \o InsertSorted(w, Tail(s))
         ELSE <<w>> \o s

RECURSIVE sort(_)
sort(s) == IF s = <<>> THEN <<>> ELSE InsertSorted(Head(s), sort(Tail(s)))

(* Vec::dedup removes consecutive repeated elements *)
RECURSIVE dedup(_)
dedup(s) ==
    IF Len(s) <= 1 THEN s
    ELSE IF s[1] = s[2] THEN dedup(Tail(s))
         ELSE <<s[1]>> \o dedup(Tail(s))

----------------------------------------------------------------------------
(* BucketIndex construction *)

NumBytes(n) == (n + 8 - 1) \div 8

TestBit(bytes, i) == (bytes[(i \div 8) + 1] \div (2 ^ (i % 8))) % 2 = 1

(* BitSlice<u8, Lsb0>::set(i, true) *)
SetBit(bytes, i) ==
    IF TestBit(bytes, i) THEN bytes
    ELSE [bytes EXCEPT ![(i \div 8) + 1] = @ + 2 ^ (i % 8)]

(* mutant: the buckets start as the universal set does, all bits set *)
EmptyBuckets_AllOnes(n) ==
    [h \in 1..NUM_BUCKETS |-> [k \in 1..NumBytes(n) |-> 255]]

EmptyBuckets(n) ==
    [h \in 1..NUM_BUCKETS |-> [k \in 1..NumBytes(n) |-> 0]]

(* mutant: the guess word is not skipped *)
RECURSIVE FillBuckets_NoSkip(_, _, _, _)
FillBuckets_NoSkip(guess, sols, i, buckets) ==
    IF i >= Len(sols) THEN buckets
    ELSE LET hint == compute_wordle_hint(sols[i + 1], guess)
         IN  FillBuckets_NoSkip(guess, sols, i + 1,
                 [buckets EXCEPT ![hint + 1] = SetBit(@, i)])

(* the for_each over solutions.iter().enumerate() *)
RECURSIVE FillBuckets(_, _, _, _)
FillBuckets(guess, sols, i, buckets) ==
    IF i >= Len(sols) THEN buckets
    ELSE LET word == sols[i + 1]
         IN  IF word # guess
             THEN LET hint == compute_wordle_hint(word, guess)
                  IN  FillBuckets(guess, sols, i + 1,
                          [buckets EXCEPT ![hint + 1] = SetBit(@, i)])
             ELSE FillBuckets(guess, sols, i + 1, buckets)

(* the closure mapped over guesses.par_iter() *)
BuildBuckets(guess, sols) ==
    [guess |-> guess,
     buckets |-> FillBuckets(guess, sols, 0, EmptyBuckets(Len(sols)))]

UniversalSet(n) == [k \in 1..NumBytes(n) |-> 255]

----------------------------------------------------------------------------
(* Inputs: the words the word lists are drawn from (a = 1, b = 2, ...) *)

SolutionWords ==
    { <<1, 2, 2, 2, 2>>,     \* abbbb
      <<1, 2, 2, 2, 3>>,     \* abbbc
      <<4, 1, 1, 1, 1>>,     \* daaaa
      <<5, 1, 1, 1, 1>> }    \* eaaaa

GuessWords == SolutionWords \cup { <<1, 1, 1, 1, 1>> }    \* aaaaa

SeqsUpTo(S, n) == UNION { [1..m -> S] : m \in 0..n }

clash == <<3, 12, 1, 19, 8>>

batch == <<2, 1, 20, 3, 8>>

----------------------------------------------------------------------------
(* main *)

Init ==
    /\ args_permutations \in 0..MaxPermutations
    /\ wls_solutions \in SeqsUpTo(SolutionWords, MaxSolutions)
    /\ wls_guesses \in SeqsUpTo(GuessWords, MaxGuesses)
    /\ solutions = <<>>
    /\ guesses = <<>>
    /\ all_the_buckets = <<>>
    /\ solution_bucket = <<>>
    /\ pc = "start"
    /\ tpc = <<>>
    /\ my_bucket = <<>>
    /\ inner_winners = <<>>
    /\ winners = <<>>
    /\ fn_in = <<>>
    /\ fn_out = <<>>

(* the panic on a depth other than 2 or 3, then the startup self-check *)
CheckArgs ==
    /\ pc = "start"
    /\ pc' = IF args_permutations # 2 /\ args_permutations # 3 THEN "panic"
             ELSE IF compute_colors(clash, batch)
                       = hint_to_pattern(compute_wordle_hint(clash, batch))
                  THEN "read"
                  ELSE "panic"
    /\ UNCHANGED <<args_permutations, wls_solutions, wls_guesses, solutions,
                   guesses, all_the_buckets, solution_bucket, tpc, my_bucket,
                   inner_winners, winners, fn_in, fn_out>>

ReadWords ==
    /\ pc = "read"
    /\ LET sols == dedup(sort(wls_solutions))
       IN  /\ solutions' = sols
           /\ guesses' = dedup(sort(sols \o wls_guesses))
    /\ wls_solutions' = <<>>
    /\ wls_guesses' = <<>>
    /\ pc' = "hints"
    /\ UNCHANGED <<args_permutations, all_the_buckets, solution_bucket, tpc,
                   my_bucket, inner_winners, winners, fn_in, fn_out>>

ComputeHints ==
    /\ pc = "hints"
    /\ all_the_buckets' =
           [g \in 1..Len(guesses) |-> BuildBuckets(guesses[g], solutions)]
    /\ solution_bucket' = UniversalSet(Len(solutions))
    /\ pc' = "dispatch"
    /\ UNCHANGED <<args_permutations, wls_solutions, wls_guesses, solutions,
                   guesses, tpc, my_bucket, inner_winners, winners, fn_in,
                   fn_out>>

(* if args.permutations == 3 { find_winners_3() } else { find_winners_2() } *)
(* par_iter forks one task per entry of all_the_buckets                     *)
Dispatch ==
    /\ pc = "dispatch"
    /\ pc' = IF args_permutations = 3 THEN "find_winners_3"
             ELSE "find_winners_2"
    /\ tpc' = [i \in 1..Len(all_the_buckets) |-> "start"]
    /\ my_bucket' = [i \in 1..Len(all_the_buckets) |-> <<>>]
    /\ inner_winners' = [i \in 1..Len(all_the_buckets) |-> <<>>]
    /\ UNCHANGED <<args_permutations, wls_solutions, wls_guesses, solutions,
                   guesses, all_the_buckets, solution_bucket, winners, fn_in,
                   fn_out>>

(* mutant: one buffer shared by all the tasks *)
SharedBuffer(i) == 1

(* the buffer a task writes: its own `let mut inner_winners` *)
OwnBuffer(i) == i

(* the for loop over (gfinal, buckets_final) in &all_the_buckets *)
RECURSIVE FinalLoop(_, _, _, _, _)
FinalLoop(g1, current, catalog, j, buffer) ==
    IF j > Len(catalog) THEN buffer
    ELSE IF find_best_bucket_bounded(current, catalog[j].buckets, 1).some
         THEN FinalLoop(g1, current, catalog, j + 1,
                        Append(buffer, <<g1, catalog[j].guess>>))
         ELSE FinalLoop(g1, current, catalog, j + 1, buffer)

(* find_winners_2: the closure of flat_map run for entry i.  The task      *)
(* reads the catalog and the universal set and writes its own buffer only, *)
(* so it is one step.                                                      *)
Task2(i) ==
    /\ pc = "find_winners_2"
    /\ tpc[i] = "start"
    /\ LET g1 == all_the_buckets[i].guess
           best == find_best_bucket_bounded(solution_bucket,
                       all_the_buckets[i].buckets, NUM_BUCKETS)
           current == intersect(solution_bucket, best.v.bucket)
       IN  IF best.some
           THEN /\ my_bucket' = [my_bucket EXCEPT ![i] = current]
                /\ inner_winners' =
                       [inner_winners EXCEPT
                           ![OwnBuffer(i)] =
                               FinalLoop(g1, current, all_the_buckets, 1, <<>>)]
           ELSE /\ my_bucket' = my_bucket
                /\ inner_winners' =
                       [inner_winners EXCEPT ![OwnBuffer(i)] = <<>>]
    /\ tpc' = [tpc EXCEPT ![i] = "done"]
    /\ UNCHANGED <<args_permutations, wls_solutions, wls_guesses, solutions,
                   guesses, all_the_buckets, solution_bucket, pc, winners,
                   fn_in, fn_out>>

(* flat_map(...).collect(): the buffers concatenated in entry order *)
RECURSIVE Flatten(_, _)
Flatten(buffers, i) ==
    IF i > Len(buffers) THEN <<>>
    ELSE buffers[i] \o Flatten(buffers, i + 1)

Collect2 ==
    /\ pc = "find_winners_2"
    /\ \A i \in 1..Len(tpc) : tpc[i] = "done"
    /\ winners' = Flatten(inner_winners, 1)
    /\ pc' = "done"
    /\ UNCHANGED <<args_permutations, wls_solutions, wls_guesses, solutions,
                   guesses, all_the_buckets, solution_bucket, tpc, my_bucket,
                   inner_winners, fn_in, fn_out>>

(* find_winners_3: the closure of flat_map run for entry i *)
Task3(i) ==
    /\ pc = "find_winners_3"
    /\ tpc[i] = "start"
    /\ LET g1 == all_the_buckets[i].guess
           best == find_best_bucket_bounded(solution_bucket,
                       all_the_buckets[i].buckets, NUM_BUCKETS)
           current == intersect(solution_bucket, best.v.bucket)
       IN  IF best.some
           THEN /\ my_bucket' = [my_bucket EXCEPT ![i] = current]
                /\ inner_winners' =
                       [inner_winners EXCEPT
                           ![OwnBuffer(i)] =
                               FinalLoop(g1, current, all_the_buckets, 1, <<>>)]
           ELSE /\ my_bucket' = my_bucket
                /\ inner_winners' =
                       [inner_winners EXCEPT ![OwnBuffer(i)] = <<>>]
    /\ tpc' = [tpc EXCEPT ![i] = "done"]
    /\ UNCHANGED <<args_permutations, wls_solutions, wls_guesses, solutions,
                   guesses, all_the_buckets, solution_bucket, pc, winners,
                   fn_in, fn_out>>

Collect3 ==
    /\ pc = "find_winners_3"
    /\ \A i \in 1..Len(tpc) : tpc[i] = "done"
    /\ winners' = Flatten(inner_winners, 1)
    /\ pc' = "done"
    /\ UNCHANGED <<args_permutations, wls_solutions, wls_guesses, solutions,
                   guesses, all_the_buckets, solution_bucket, tpc, my_bucket,
                   inner_winners, fn_in, fn_out>>

Next ==
    \/ CheckArgs
    \/ ReadWords
    \/ ComputeHints
    \/ Dispatch
    \/ \E i \in 1..Len(tpc) : Task2(i)
    \/ Collect2
    \/ \E i \in 1..Len(tpc) : Task3(i)
    \/ Collect3

Spec == Init /\ [][Next]_vars

----------------------------------------------------------------------------
(* The functions applied on their own.  main stays where it is; fn_in is   *)
(* the argument list and fn_out the result.                                *)

MaxLetters == 2

MaxBytes == 2

MaxBound == 2

NoMain ==
    /\ args_permutations = 2
    /\ wls_solutions = <<>>
    /\ wls_guesses = <<>>
    /\ solutions = <<>>
    /\ guesses = <<>>
    /\ all_the_buckets = <<>>
    /\ solution_bucket = <<>>
    /\ pc = "fn"
    /\ tpc = <<>>
    /\ my_bucket = <<>>
    /\ inner_winners = <<>>
    /\ winners = <<>>

Words == [1..WordLen -> 1..MaxLetters]

Patterns == [1..WordLen -> 0..2]

(* HintEncoder *)

InitHint ==
    /\ NoMain
    /\ fn_in \in [op : {"hint"}, word : Words, guess : Words]
                 \cup [op : {"encode"}, pattern : Patterns]
                 \cup [op : {"decode"}, hint : 0..(NUM_BUCKETS - 1)]
    /\ fn_out = <<>>

ApplyHint ==
    /\ fn_out = <<>>
    /\ fn_in.op = "hint"
    /\ fn_out' = [pattern |-> compute_colors(fn_in.word, fn_in.guess),
                  hint |-> compute_wordle_hint(fn_in.word, fn_in.guess)]
    /\ UNCHANGED <<mainVars, fn_in>>

ApplyEncode ==
    /\ fn_out = <<>>
    /\ fn_in.op = "encode"
    /\ fn_out' = [hint |-> encode(fn_in.pattern)]
    /\ UNCHANGED <<mainVars, fn_in>>

ApplyDecode ==
    /\ fn_out = <<>>
    /\ fn_in.op = "decode"
    /\ fn_out' = [pattern |-> hint_to_pattern(fn_in.hint)]
    /\ UNCHANGED <<mainVars, fn_in>>

NextHint == ApplyHint \/ ApplyEncode \/ ApplyDecode

SpecHint == InitHint /\ [][NextHint]_vars

(* SetArithmetic *)

ByteSamples == {0, 1, 3, 7, 255}

InitSize ==
    /\ NoMain
    /\ \E n \in 0..MaxBytes :
           fn_in \in [op : {"size"}, a : [1..n -> ByteSamples],
                      b : [1..n -> ByteSamples], bound : 0..(MaxBound + 1)]
    /\ fn_out = <<>>

ApplySize ==
    /\ fn_out = <<>>
    /\ fn_in.op = "size"
    /\ fn_out' = [bounded |-> intersect_size_bounded(fn_in.a, fn_in.b,
                                                     fn_in.bound),
                  full |-> intersect_size(fn_in.a, fn_in.b)]
    /\ UNCHANGED <<mainVars, fn_in>>

NextSize == ApplySize

SpecSize == InitSize /\ [][NextSize]_vars

(* BucketSelector: a bucket index as main builds it, any candidate set *)

Pools == { dedup(sort(s)) : s \in SeqsUpTo(SolutionWords, MaxSolutions) }

CandidateSets(n) ==
    {UniversalSet(n)}
        \cup (IF n = 0 THEN {} ELSE { <<m>> : m \in 0..(2 ^ n - 1) })

InitSelect ==
    /\ NoMain
    /\ \E sols \in Pools : \E guess \in GuessWords :
           fn_in \in [op : {"select"},
                      current_set : CandidateSets(Len(sols)),
                      buckets : {BuildBuckets(guess, sols).buckets},
                      bound : 0..MaxBound]
    /\ fn_out = <<>>

ApplySelect ==
    /\ fn_out = <<>>
    /\ fn_in.op = "select"
    /\ fn_out' = BoundedScan(fn_in.current_set, fn_in.buckets, fn_in.bound)
    /\ UNCHANGED <<mainVars, fn_in>>

NextSelect == ApplySelect

SpecSelect == InitSelect /\ [][NextSelect]_vars

----------------------------------------------------------------------------
(* Vocabulary of the properties *)

Range(f) == { f[x] : x \in DOMAIN f }

(* the positions of the set bits of a bitset *)
BitSet(bytes) == { i \in 0..(8 * Len(bytes) - 1) : TestBit(bytes, i) }

Population(bytes) == Cardinality(BitSet(bytes))

IsZero(bytes) == \A k \in 1..Len(bytes) : bytes[k] = 0

Codes == 0..(NUM_BUCKETS - 1)

PoolPositions == 0..(Len(solutions) - 1)

Searching == pc \in {"find_winners_2", "find_winners_3"}

Built == pc \in {"dispatch", "find_winners_2", "find_winners_3", "done"}

aaaaa == <<1, 1, 1, 1, 1>>

abbbb == <<1, 2, 2, 2, 2>>

(* the pool positions whose word answers guess with feedback code c *)
Answering(guess, c) ==
    { i \in PoolPositions :
          solutions[i + 1] # guess /\ compute_wordle_hint(solutions[i + 1], guess) = c }

(* The adversary's code for a bucket index on the whole pool, stated as a  *)
(* property of the code rather than as a scan: no other code keeps more    *)
(* candidates, and none that keeps as many is less informative.            *)
AdversaryCode(buckets) ==
    LET most == CHOOSE n \in 0..Len(solutions) :
                    /\ \E c \in Codes : Population(buckets[c + 1]) = n
                    /\ \A c \in Codes : IsZero(buckets[c + 1])
                                         \/ Population(buckets[c + 1]) <= n
        tied == { c \in Codes : IF most = 0 THEN TRUE
                                ELSE ~IsZero(buckets[c + 1])
                                     /\ Population(buckets[c + 1]) = most }
    IN  CHOOSE c \in tied :
            \A d \in tied : compute_tie_breaker(c) <= compute_tie_breaker(d)

(* the candidates left by the feedback codes c1 to g1 and c2 to gfinal *)
Left(i, c1, j, c2) ==
    (PoolPositions \cap BitSet(all_the_buckets[i].buckets[c1 + 1]))
        \cap BitSet(all_the_buckets[j].buckets[c2 + 1])

NonEmptyCodes(i) ==
    { c \in Codes : ~IsZero(all_the_buckets[i].buckets[c + 1]) }

Emitted(i, j) ==
    <<all_the_buckets[i].guess, all_the_buckets[j].guess>> \in Range(winners)

Entries == 1..Len(all_the_buckets)

----------------------------------------------------------------------------
(* C1 as stated: every winner (g1, gfinal) of the depth-2 search leaves at *)
(* most one candidate for every non-empty bucket c1 of g1 and every code   *)
(* c2 of gfinal.                                                           *)
C1_AnyResponse ==
    (pc = "done" /\ args_permutations = 2) =>
        \A i \in Entries : \A j \in Entries :
            Emitted(i, j) =>
                \A c1 \in NonEmptyCodes(i) : \A c2 \in Codes :
                    Cardinality(Left(i, c1, j, c2)) <= 1

(* C1 amended: every winner (g1, gfinal) of the depth-2 search leaves at   *)
(* most one candidate for the code c1 the adversary's policy picks for g1  *)
(* (most candidates kept, ties to the least informative code) and every    *)
(* code c2 of gfinal.                                                      *)
C1_AdversaryResponse ==
    (pc = "done" /\ args_permutations = 2) =>
        \A i \in Entries :
            (\E j \in Entries : Emitted(i, j)) =>
                LET c1 == AdversaryCode(all_the_buckets[i].buckets)
                IN  \A j \in Entries :
                        Emitted(i, j) =>
                            \A c2 \in Codes :
                                Cardinality(Left(i, c1, j, c2)) <= 1

(* a depth-2 run that emitted (aaaaa, abbbb) although aaaaa splits the     *)
(* pool in two buckets of two candidates                                   *)
C1_Witness ==
    /\ pc = "done"
    /\ args_permutations = 2
    /\ <<aaaaa, abbbb>> \in Range(winners)
    /\ \E i \in Entries :
           /\ all_the_buckets[i].guess = aaaaa
           /\ Cardinality(NonEmptyCodes(i)) = 2
           /\ Population(my_bucket[i]) = 2

----------------------------------------------------------------------------
(* C2 as stated: at depth 3 every emitted winner is (g1, g2, gfinal,       *)
(* solution), a sequence of three guesses and the remaining candidate; no  *)
(* winner of any other shape is emitted.                                   *)
C2_Depth3Shape ==
    (pc = "done" /\ args_permutations = 3) =>
        \A k \in 1..Len(winners) :
            /\ Len(winners[k]) = 4
            /\ winners[k][4] \in Range(solutions)

----------------------------------------------------------------------------
(* The exhaustive recomputation of the depth-2 winners: the adversary's    *)
(* bucket by the unbounded find_best_bucket, then every bucket of gfinal   *)
(* counted in full against what remains.                                   *)
ExhaustiveWinners ==
    UNION { LET best == find_best_bucket(solution_bucket,
                                         all_the_buckets[i].buckets)
                remaining == intersect(solution_bucket, best.v.bucket)
            IN  { <<all_the_buckets[i].guess, all_the_buckets[j].guess>> :
                    j \in { j \in Entries :
                              \A c \in Codes :
                                  intersect_size(
                                      all_the_buckets[j].buckets[c + 1],
                                      remaining) <= 1 } }
            : i \in Entries }

----------------------------------------------------------------------------
(* C6: for every guess the buckets, as built, are pairwise disjoint, their *)
(* union is the pool without the guess, every candidate other than the     *)
(* guess is in the bucket of its feedback code, and the guess is in none.  *)
C6_Partition ==
    pc = "dispatch" =>
        \A g \in Entries :
            LET guess == all_the_buckets[g].guess
                buckets == all_the_buckets[g].buckets
            IN  /\ Len(buckets) = NUM_BUCKETS
                /\ \A c \in Codes :
                       IsZero(buckets[c + 1])
                       \/ \A d \in Codes \ {c} :
                              intersect_size(buckets[c + 1], buckets[d + 1]) = 0
                /\ UNION { BitSet(buckets[c + 1]) : c \in Codes }
                       = { i \in PoolPositions : solutions[i + 1] # guess }
                /\ \A i \in PoolPositions :
                       IF solutions[i + 1] = guess
                       THEN \A c \in Codes : ~TestBit(buckets[c + 1], i)
                       ELSE TestBit(buckets[
                                compute_wordle_hint(solutions[i + 1], guess) + 1],
                                i)

(* a catalog over four candidates in which a guess is itself a candidate  *)
(* and a bucket holds two candidates                                       *)
C6_Witness ==
    /\ pc = "dispatch"
    /\ Len(solutions) = 4
    /\ \E g \in Entries :
           /\ all_the_buckets[g].guess \in Range(solutions)
           /\ \E c \in Codes :
                  Population(all_the_buckets[g].buckets[c + 1]) = 2

----------------------------------------------------------------------------
(* The winners the word lists determine: the pairs a run of the tasks one  *)
(* after the other emits, from buckets built from the lists.               *)
WinnersOf(sols, gs) ==
    LET universal == UniversalSet(Len(sols))
        index(g) == BuildBuckets(g, sols).buckets
    IN  UNION { LET best == find_best_bucket_bounded(universal, index(g1),
                                                     NUM_BUCKETS)
                    remaining == intersect(universal, best.v.bucket)
                IN  IF best.some
                    THEN { <<g1, gfinal>> :
                             gfinal \in { gf \in Range(gs) :
                                 find_best_bucket_bounded(remaining,
                                     index(gf), 1).some } }
                    ELSE {}
                : g1 \in Range(gs) }

(* C7: in whatever order the per-g1 tasks run, a buffer changes only in    *)
(* the step of its own task, the catalog and the universal set are not     *)
(* written during the search, and the winners collected are the set the    *)
(* word lists determine.                                                   *)
C7_OrderIndependent ==
    [][ /\ Searching =>
            /\ all_the_buckets' = all_the_buckets
            /\ solution_bucket' = solution_bucket
            /\ \A i \in DOMAIN inner_winners :
                   inner_winners'[i] # inner_winners[i] =>
                       tpc[i] = "start" /\ tpc'[i] = "done"
        /\ (Searching /\ pc' = "done") =>
               Range(winners') = WinnersOf(solutions, guesses)
      ]_vars

(* tasks finished out of entry order: the last one has emitted winners    *)
(* while the first has not started                                         *)
C7_Witness ==
    /\ pc = "find_winners_2"
    /\ Len(tpc) = 5
    /\ tpc[1] = "start"
    /\ tpc[5] = "done"
    /\ tpc[3] = "start"
    /\ inner_winners[5] # <<>>

----------------------------------------------------------------------------
(* C10: the universal set has its padding bits set, the buckets have none, *)
(* so a bucket's intersection size with the universal set is its own       *)
(* population; and a candidate set formed by a task holds only positions   *)
(* of the pool, those of the candidates that answer g1 with one feedback   *)
(* code.                                                                   *)
C10_NoPadding ==
    /\ pc = "dispatch" =>
           /\ BitSet(solution_bucket) = 0..(8 * NumBytes(Len(solutions)) - 1)
           /\ \A g \in Entries : \A c \in Codes :
                  LET bucket == all_the_buckets[g].buckets[c + 1]
                  IN  /\ BitSet(bucket) \subseteq PoolPositions
                      /\ intersect_size(bucket, solution_bucket)
                             = Population(bucket)
    /\ Searching =>
           \A i \in Entries :
               (tpc[i] = "done" /\ my_bucket[i] # <<>>) =>
                   /\ BitSet(my_bucket[i]) \subseteq PoolPositions
                   /\ \E c \in Codes :
                          BitSet(my_bucket[i])
                              = Answering(all_the_buckets[i].guess, c)

(* a pool of four candidates, so four padding bits in the universal set,   *)
(* and a task that has formed a candidate set of two                       *)
C10_Witness ==
    /\ Searching
    /\ Len(solutions) = 4
    /\ solution_bucket = <<255>>
    /\ \E i \in Entries : tpc[i] = "done" /\ Population(my_bucket[i]) = 2

----------------------------------------------------------------------------
(* what the selector was applied to, and what it returned *)

Applied(op) == fn_out # <<>> /\ fn_in.op = op

SizeOf(c) == intersect_size(fn_in.buckets[c + 1], fn_in.current_set)

ReturnedNone == ~fn_out.max_item.some

Chosen == fn_out.max_item.v

(* C4 as stated: select returns nothing exactly when every bucket's        *)
(* intersection with the current set exceeds the bound.                    *)
C4_NoneIffEvery ==
    Applied("select") =>
        (ReturnedNone <=> \A c \in Codes : SizeOf(c) > fn_in.bound)

(* C4 amended: select returns nothing exactly when some bucket's           *)
(* intersection with the current set exceeds the bound; otherwise it       *)
(* returns the bucket of maximum intersection size, ties broken by minimum *)
(* informativeness.                                                        *)
C4_NoneIffSome ==
    Applied("select") =>
        /\ ReturnedNone <=> \E c \in Codes : SizeOf(c) > fn_in.bound
        /\ ~ReturnedNone =>
               /\ Chosen.bucket = fn_in.buckets[Chosen.hint + 1]
               /\ Chosen.size = SizeOf(Chosen.hint)
               /\ \A c \in Codes :
                      \/ SizeOf(c) < Chosen.size
                      \/ /\ SizeOf(c) = Chosen.size
                         /\ compute_tie_breaker(Chosen.hint)
                                <= compute_tie_breaker(c)

(* nothing is returned although some bucket is within the bound *)
C4_Witness ==
    /\ Applied("select")
    /\ ReturnedNone
    /\ \E c \in Codes : SizeOf(c) > fn_in.bound
    /\ \E c \in Codes : SizeOf(c) <= fn_in.bound /\ SizeOf(c) > 0

----------------------------------------------------------------------------
(* C9: the scan goes through the buckets in code order and returns nothing *)
(* at the first bucket over the bound; when no bucket is over the bound it *)
(* looks at all of them and returns the one bucket that beats every other: *)
(* strictly more candidates, or as many and a strictly smaller             *)
(* informativeness score, wherever the other stands in the scan.           *)
C9_ScanResult ==
    Applied("select") =>
        LET over == { c \in Codes : SizeOf(c) > fn_in.bound }
        IN  IF over # {}
            THEN /\ ReturnedNone
                 /\ fn_out.scanned - 1 \in over
                 /\ \A c \in over : fn_out.scanned - 1 <= c
            ELSE /\ ~ReturnedNone
                 /\ fn_out.scanned = NUM_BUCKETS
                 /\ \A c \in Codes \ {Chosen.hint} :
                        \/ SizeOf(c) < SizeOf(Chosen.hint)
                        \/ /\ SizeOf(c) = SizeOf(Chosen.hint)
                           /\ compute_tie_breaker(c)
                                  > compute_tie_breaker(Chosen.hint)

(* a tie in size between two non-empty buckets that the later code wins *)
C9_Witness ==
    /\ Applied("select")
    /\ ~ReturnedNone
    /\ Chosen.size > 0
    /\ \E c \in Codes : c < Chosen.hint /\ SizeOf(c) = Chosen.size

----------------------------------------------------------------------------
(* C5: the bounded count exceeds the bound exactly when the full count     *)
(* does, and equals the full count whenever that is within the bound.      *)
C5_BoundedAgrees ==
    Applied("size") =>
        /\ fn_out.bounded > fn_in.bound <=> fn_out.full > fn_in.bound
        /\ fn_out.full <= fn_in.bound => fn_out.bounded = fn_out.full

(* the loop broke before the last byte: the count returned is over the    *)
(* bound and short of the full count                                       *)
C5_Witness ==
    /\ Applied("size")
    /\ fn_out.bounded > fn_in.bound
    /\ fn_out.bounded < fn_out.full

----------------------------------------------------------------------------
(* C8: decoding the hint of a word pair gives its colour pattern; decoding *)
(* the code of a pattern gives the pattern back, the code being in         *)
(* [0, 243); and every code in [0, 243) is the code of the pattern it      *)
(* decodes to.                                                             *)
C8_RoundTrip ==
    /\ Applied("hint") =>
           /\ hint_to_pattern(fn_out.hint) = fn_out.pattern
           /\ fn_out.pattern \in Patterns
    /\ Applied("encode") =>
           /\ fn_out.hint \in Codes
           /\ hint_to_pattern(fn_out.hint) = fn_in.pattern
    /\ Applied("decode") =>
           /\ fn_out.pattern \in Patterns
           /\ encode(fn_out.pattern) = fn_in.hint

(* a word pair whose pattern has a green, a yellow and a gray tile *)
C8_Witness ==
    /\ Applied("hint")
    /\ fn_in.word # fn_in.guess
    /\ {0, 1, 2} \subseteq Range(fn_out.pattern)

====
